---------------------------- MODULE Spec2Model ----------------------------
(***************************************************************************)
(* A model of the ladybug-learning core: the collapse gate of              *)
(* src/src/cognitive.rs, the fingerprint algebra of src/src/core.rs, the   *)
(* truth values of src/src/nars.rs and the MetaAGI orchestrator of         *)
(* src/src/lib.rs.                                                         *)
(*                                                                         *)
(* Numbers.  An f32 score is a fixed-point number counted in units of      *)
(* 1/Scale, or the value NaN.  Sums, means and variances are exact         *)
(* rationals [n, d] in lowest terms; a standard deviation is kept as the   *)
(* rational under the square root (sd.sq), so that sd < t is decided       *)
(* exactly as sd.sq < t*t.  Rounding of f32 arithmetic is not modelled in  *)
(* the gate; the truth values are computed in f32 bit for bit.             *)
(***************************************************************************)
EXTENDS Integers, Sequences, FiniteSets, TLC

VARIABLES
    scores,     \* the candidate_scores slice the caller is building / passed
    clarification, \* the clarification_available argument of the last call
    pc,         \* "idle": the caller prepares a call; "done": the call ended
    decision,   \* what the last evaluate_gate call produced
    now,        \* SystemTime::now() in nanoseconds since UNIX_EPOCH
    holdKeys,   \* history: the sppm_key of every Hold action returned so far
    fpA,        \* fingerprint operands of the next operation
    fpB,
    fpC,
    fpOp,       \* the fingerprint operation that ran last
    fpOut,      \* the Fingerprint it returned, None when it returned none
    fpHam,      \* the hamming distance it returned
    fpSim,      \* the similarity it returned
    fpDepth,    \* how many results were fed back as operands
    tvA,        \* TruthValue operands of the next operation (self, other)
    tvB,
    tvOp,       \* the TruthValue constructor or operation that ran last
    tvArgs,     \* the f32 arguments it was called with
    tvOut,      \* the TruthValue it returned, None before the first call
    tvDepth,    \* how many returned truth values became operands
    session,        \* MetaAGI.session: None or Some(task_id)
    blackboard,     \* MetaAGI.blackboard: None or Some(counters)
    resonance,      \* MetaAGI.resonance: the entries and total_captures
    concepts,       \* MetaAGI.concepts: total_extractions
    global_cycle,   \* MetaAGI.global_cycle, None before MetaAGI::new()
    agiOp,          \* the MetaAGI method that ran last
    agiCycle        \* the cycle that method handed to the memory, or None

gateVars == <<scores, clarification, pc, decision, now, holdKeys>>

fpVars == <<fpA, fpB, fpC, fpOp, fpOut, fpHam, fpSim, fpDepth>>

tvVars == <<tvA, tvB, tvOp, tvArgs, tvOut, tvDepth>>

agiVars == <<session, blackboard, resonance, concepts, global_cycle, agiOp, agiCycle>>

vars == <<gateVars, fpVars, tvVars, agiVars>>

---------------------------------------------------------------------------
(* Bounds of the model *)

\* longest candidate_scores slice a caller builds
MaxCandidates == 4
\* longest slice in the specification that records Hold keys
MaxKeyCandidates == 2
\* the clock stops advancing after this many nanoseconds
MaxClock == 1
\* number of Hold keys recorded in the history
MaxHolds == 2
\* how many times a returned fingerprint becomes an operand
MaxFeed == 1
\* how many times a returned truth value becomes an operand
MaxChain == 1
\* capture_moment is called while global_cycle is below this
MaxCycle == 3

---------------------------------------------------------------------------
(* Exact rationals *)

RECURSIVE GCD(_, _)
GCD(a, b) == IF b = 0 THEN a ELSE GCD(b, a % b)

Abs(x) == IF x < 0 THEN -x ELSE x

\* num/den in lowest terms, den > 0
Rat(num, den) ==
    LET g == GCD(Abs(num), Abs(den))
        s == IF den < 0 THEN -1 ELSE 1
    IN  [n |-> s * (num \div g), d |-> s * (den \div g)]

RatAdd(a, b) ==
    LET l == (a.d * b.d) \div GCD(a.d, b.d)
    IN  Rat(a.n * (l \div a.d) + b.n * (l \div b.d), l)

RatSub(a, b) == RatAdd(a, Rat(-b.n, b.d))

RatMul(a, b) == Rat(a.n * b.n, a.d * b.d)

RatDivInt(a, k) == Rat(a.n, a.d * k)

RatLess(a, b) == a.n * b.d < b.n * a.d

---------------------------------------------------------------------------
(* f32 values: a finite fixed-point number, or NaN *)

\* score units per 1.0
Scale == 100

F(v) == [nan |-> FALSE, v |-> v]

NaN == [nan |-> TRUE, v |-> 0]

\* the score values callers pass: 0, 0.3, 1.0, 3.0, 10.0 and NaN
ScoreValues == {F(0), F(30), F(100), F(300), F(1000), NaN}

None == <<>>

Some(x) == <<x>>

\* f32::partial_cmp: None when either side is NaN
partial_cmp(a, b) ==
    IF a.nan \/ b.nan THEN "None"
    ELSE IF a.v < b.v THEN "Less"
    ELSE IF a.v > b.v THEN "Greater"
    ELSE "Equal"

---------------------------------------------------------------------------
(* cognitive.rs: dispersion and gate state *)

SD_MAX == Scale \div 2

SD_FLOW_THRESHOLD == (30 * SD_MAX) \div 100

SD_BLOCK_THRESHOLD == (70 * SD_MAX) \div 100

SdFinite(sq) == [kind |-> "finite", sq |-> sq]

SdNaN == [kind |-> "nan", sq |-> Rat(0, 1)]

SdInfinity == [kind |-> "inf", sq |-> Rat(0, 1)]

RECURSIVE SumRat(_, _)
\* values.iter().sum() over a sequence of rationals, from index i on
SumRat(rs, i) ==
    IF i > Len(rs) THEN Rat(0, 1) ELSE RatAdd(rs[i], SumRat(rs, i + 1))

HasNaN(values) == \E i \in 1..Len(values) : values[i].nan

\* calculate_sd dividing by n - 1: the sample standard deviation
calculate_sd_sample(values) ==
    IF Len(values) <= 1 THEN SdFinite(Rat(0, 1))
    ELSE IF HasNaN(values) THEN SdNaN
    ELSE
        LET n == Len(values)
            mean == RatDivInt(SumRat([i \in 1..n |-> Rat(values[i].v, 1)], 1), n)
            sqdev == [i \in 1..n |->
                        LET dv == RatSub(Rat(values[i].v, 1), mean)
                        IN  RatMul(dv, dv)]
            variance == RatDivInt(SumRat(sqdev, 1), n - 1)
        IN  SdFinite(variance)

calculate_sd(values) ==
    IF Len(values) <= 1 THEN SdFinite(Rat(0, 1))
    ELSE IF HasNaN(values) THEN SdNaN
    ELSE
        LET n == Len(values)
            mean == RatDivInt(SumRat([i \in 1..n |-> Rat(values[i].v, 1)], 1), n)
            sqdev == [i \in 1..n |->
                        LET dv == RatSub(Rat(values[i].v, 1), mean)
                        IN  RatMul(dv, dv)]
            variance == RatDivInt(SumRat(sqdev, 1), n)
        IN  SdFinite(variance)

\* sd < t and sd > t for a threshold t >= 0; every comparison with NaN is false
SdLess(sd, t) ==
    /\ sd.kind = "finite"
    /\ RatLess(sd.sq, Rat(t * t, 1))

SdGreater(sd, t) ==
    \/ sd.kind = "inf"
    \/ /\ sd.kind = "finite"
       /\ RatLess(Rat(t * t, 1), sd.sq)

get_gate_state(sd) ==
    IF SdLess(sd, SD_FLOW_THRESHOLD) THEN "Flow"
    ELSE IF SdGreater(sd, SD_BLOCK_THRESHOLD) THEN "Block"
    ELSE "Hold"

---------------------------------------------------------------------------
(* cognitive.rs: the winner, Iterator::max_by over enumerate() *)

RECURSIVE MaxByFold(_, _, _)
\* Iterator::max_by folds from the left, comparing the best so far (index
\* acc) with the next element (index i): the best is kept only when it
\* compares Greater, so of equal elements the later one wins.  unwrap() on
\* the None of partial_cmp panics.  Indices are 0-based as in the code.
MaxByFold(s, acc, i) ==
    IF i >= Len(s) THEN [panic |-> FALSE, idx |-> acc]
    ELSE
        LET c == partial_cmp(s[acc + 1], s[i + 1])
        IN  IF c = "None" THEN [panic |-> TRUE, idx |-> acc]
            ELSE IF c = "Greater" THEN MaxByFold(s, acc, i + 1)
            ELSE MaxByFold(s, i, i + 1)

max_by(s) == MaxByFold(s, 0, 1)

---------------------------------------------------------------------------
(* cognitive.rs: the Hold key *)

\* as_nanos() as u64: the cast truncates to 64 bits, which is the identity
\* on every clock value modelled here
rand_u64(clock) == clock

HexDigit(d) ==
    <<"0", "1", "2", "3", "4", "5", "6", "7",
      "8", "9", "a", "b", "c", "d", "e", "f">>[d + 1]

RECURSIVE LowerHex(_)
\* {:x}: lower-case hexadecimal without leading zeros
LowerHex(n) ==
    IF n < 16 THEN <<HexDigit(n)>>
    ELSE Append(LowerHex(n \div 16), HexDigit(n % 16))

sppm_key(clock) == <<"sppm_">> \o LowerHex(rand_u64(clock))

---------------------------------------------------------------------------
(* cognitive.rs: evaluate_gate *)

Collapse(i) == [tag |-> "Collapse", winner_index |-> i]

Hold(k) == [tag |-> "Hold", sppm_key |-> k]

Clarify(q) == [tag |-> "Clarify", question |-> q]

Block(r) == [tag |-> "Block", reason |-> r]

\* a returned CollapseDecision
CollapseDecision(state, sd, can, action, reason, wi, ws) ==
    [outcome |-> "returned", state |-> state, sd |-> sd, can_collapse |-> can,
     action |-> action, reason |-> reason,
     winner_index |-> wi, winner_score |-> ws]

\* the call unwound with a panic: nothing is returned
Panicked == [outcome |-> "panic"]

\* no call has ended yet
NoDecision == [outcome |-> "none"]

\* the empty slice without its early return: calculate_sd gives 0.0, the
\* state is Flow and max_by's None becomes unwrap_or((0, 0.0))
EmptyDecisionFallsThrough ==
    CollapseDecision("Flow", SdFinite(Rat(0, 1)), TRUE, Collapse(0),
                     <<"Low dispersion", SdFinite(Rat(0, 1))>>,
                     Some(0), Some(F(0)))

\* lines 102-112: the empty slice
EmptyDecision ==
    CollapseDecision("Block", SdInfinity, FALSE, Block("No candidates"),
                     <<"Empty candidate set">>, None, None)

\* lines 114-124: a single candidate
SingleDecision(candidate_scores) ==
    CollapseDecision("Flow", SdFinite(Rat(0, 1)), TRUE, Collapse(0),
                     <<"Single candidate">>, Some(0), Some(candidate_scores[1]))

\* lines 136-144: GateState::Flow
FlowDecision(sd, winner_idx, winner_score) ==
    CollapseDecision("Flow", sd, TRUE, Collapse(winner_idx),
                     <<"Low dispersion", sd>>,
                     Some(winner_idx), Some(winner_score))

\* the Hold arm with can_collapse copied from the Flow arm
HoldDecisionCommits(sd, winner_idx, winner_score, clock) ==
    CollapseDecision("Hold", sd, TRUE, Hold(sppm_key(clock)),
                     <<"Medium dispersion", sd>>,
                     Some(winner_idx), Some(winner_score))

\* lines 145-153: GateState::Hold
HoldDecision(sd, winner_idx, winner_score, clock) ==
    CollapseDecision("Hold", sd, FALSE, Hold(sppm_key(clock)),
                     <<"Medium dispersion", sd>>,
                     Some(winner_idx), Some(winner_score))

\* lines 155-166: GateState::Block, clarification available
ClarifyDecision(sd, winner_idx, winner_score) ==
    CollapseDecision("Block", sd, FALSE,
                     Clarify("Multiple interpretations possible"),
                     <<"High dispersion", sd>>,
                     Some(winner_idx), Some(winner_score))

\* the Block arm without clarification answering with the Block action
BlockHoldDecisionBlocks(sd, winner_idx, winner_score, clock) ==
    CollapseDecision("Block", sd, FALSE, Block("High dispersion"),
                     <<"High dispersion, holding", sd>>,
                     Some(winner_idx), Some(winner_score))

\* lines 167-177: GateState::Block, no clarification available
BlockHoldDecision(sd, winner_idx, winner_score, clock) ==
    CollapseDecision("Block", sd, FALSE, Hold(sppm_key(clock)),
                     <<"High dispersion, holding", sd>>,
                     Some(winner_idx), Some(winner_score))

evaluate_gate(candidate_scores, clarification_available, clock) ==
    IF Len(candidate_scores) = 0 THEN EmptyDecision
    ELSE IF Len(candidate_scores) = 1 THEN SingleDecision(candidate_scores)
    ELSE
        LET sd == calculate_sd(candidate_scores)
            state == get_gate_state(sd)
            m == max_by(candidate_scores)
            winner_idx == m.idx
            winner_score == candidate_scores[winner_idx + 1]
        IN  IF m.panic THEN Panicked
            ELSE IF state = "Flow" THEN
                FlowDecision(sd, winner_idx, winner_score)
            ELSE IF state = "Hold" THEN
                HoldDecision(sd, winner_idx, winner_score, clock)
            ELSE IF clarification_available THEN
                ClarifyDecision(sd, winner_idx, winner_score)
            ELSE
                BlockHoldDecision(sd, winner_idx, winner_score, clock)

---------------------------------------------------------------------------
(* core.rs: Fingerprint.  A u64 is the set of its set bit positions, bit 0  *)
(* being the least significant.  A Fingerprint is its field data, the        *)
(* function from the word indices 0..FINGERPRINT_U64-1 to u64s.              *)

FINGERPRINT_BITS == 10000

FINGERPRINT_U64 == 157

\* bits of a u64
WordBits == 64

Words == 0..(FINGERPRINT_U64 - 1)

Bits == 0..(WordBits - 1)

\* a ^ b on u64
WordXor(a, b) == (a \ b) \cup (b \ a)

\* Self { data }
from_raw(data) == data

\* Self { data: [0u64; FINGERPRINT_U64] }
zero == [w \in Words |-> {}]

\* a u64 as the sequence of its 64 bits, least significant first, and back
BitSeq(word) == [i \in 1..WordBits |-> IF (i - 1) \in word THEN 1 ELSE 0]

BitSet(seq) == {b \in Bits : seq[b + 1] = 1}

\* one turn of the inner loop of from_content, on the bits of state:
\*   feedback = (state ^ state >> 2 ^ state >> 3 ^ state >> 63) & 1
\*   state = (state >> 1) | (feedback << 63)
LfsrStep(state) ==
    LET feedback == (state[1] + state[3] + state[4] + state[WordBits]) % 2
    IN  Append(Tail(state), feedback)

\* one turn of the inner loop, for bit in 0..64: val |= (state & 1) << bit;
\* r.val holds the bits of val set so far, bit 0 first
InnerTurn(r) ==
    LET st == LfsrStep(r.state)
    IN  [state |-> st, val |-> Append(r.val, st[1])]

RECURSIVE InnerLoop(_, _)
\* n consecutive turns of the inner loop, run as two halves so that the
\* recursion stays shallow; the test on h is always true and makes TLC
\* finish the first half before it starts the second
InnerLoop(r, n) ==
    IF n = 0 THEN r
    ELSE IF n = 1 THEN InnerTurn(r)
    ELSE LET h == InnerLoop(r, n \div 2)
         IN  IF Len(h.val) >= 0 THEN InnerLoop(h, n - (n \div 2)) ELSE r

\* one turn of the outer loop, for word in &mut data: *word = val
OuterTurn(r) ==
    LET w == InnerLoop([state |-> r.state, val |-> <<>>], WordBits)
    IN  [state |-> w.state, data |-> Append(r.data, BitSet(w.val))]

RECURSIVE OuterLoop(_, _)
\* n consecutive turns of the outer loop, run as two halves like InnerLoop
OuterLoop(r, n) ==
    IF n = 0 THEN r
    ELSE IF n = 1 THEN OuterTurn(r)
    ELSE LET h == OuterLoop(r, n \div 2)
         IN  IF Len(h.data) >= 0 THEN OuterLoop(h, n - (n \div 2)) ELSE r

\* from_content, from the 64-bit value hasher.finish() gives for the content
from_content(hash) ==
    LET r == OuterLoop([state |-> BitSeq(hash), data |-> <<>>], FINGERPRINT_U64)
    IN  [w \in Words |-> r.data[w + 1]]

\* (self.data[word] >> bit) & 1 == 1
get_bit(fp, pos) ==
    LET word == pos \div WordBits
        bit == pos % WordBits
    IN  bit \in fp[word]

RECURSIVE HammingSum(_, _, _, _)
\* the sum of (a ^ b).count_ones() over the zipped words lo..hi (split in
\* halves: the recursion stays shallow)
HammingSum(a, b, lo, hi) ==
    IF lo > hi THEN 0
    ELSE IF lo = hi THEN Cardinality(WordXor(a[lo], b[lo]))
    ELSE LET mid == (lo + hi) \div 2
         IN  HammingSum(a, b, lo, mid) + HammingSum(a, b, mid + 1, hi)

hamming(a, b) == HammingSum(a, b, 0, FINGERPRINT_U64 - 1)

\* 1.0 - hamming / FINGERPRINT_BITS, as an exact rational
similarity(a, b) == RatSub(Rat(1, 1), Rat(hamming(a, b), FINGERPRINT_BITS))

\* bind with the loop ending one word early
bind_short(a, b) ==
    [i \in Words |-> IF i < FINGERPRINT_U64 - 1 THEN WordXor(a[i], b[i]) ELSE {}]

\* for i in 0..FINGERPRINT_U64: result[i] = self.data[i] ^ other.data[i]
bind(a, b) == [i \in Words |-> WordXor(a[i], b[i])]

unbind(a, b) == bind(a, b)

\* permute: starting from zero, every i in 0..total_bits with get_bit(i)
\* sets bit new_pos = (i + shift) % total_bits of the result, and nothing
\* else is set.  i -> new_pos is one-to-one on 0..total_bits, so bit p of the
\* result is set exactly when p < total_bits and get_bit((p - shift) %
\* total_bits) holds.
permute(fp, positions) ==
    LET total_bits == FINGERPRINT_BITS
        shift == positions % total_bits
    IN  [w \in Words |->
            {b \in Bits :
                LET new_pos == w * WordBits + b
                IN  /\ new_pos < total_bits
                    /\ get_bit(fp, (new_pos - shift) % total_bits)}]

---------------------------------------------------------------------------
(* nars.rs computes in f32.  An f32 is modelled bit for bit: a number is    *)
(* (-1)^s * m * 2^e with a 24-bit significand m, either normal              *)
(* (2^23 <= m < 2^24, MinExp <= e <= MaxExp), subnormal (0 < m < 2^23,      *)
(* e = MinExp) or zero (m = 0, e = MinExp); the other values are the two    *)
(* infinities and NaN.  Every operation rounds to nearest, ties to even,    *)
(* as IEEE 754 and Rust's f32 do.                                           *)

\* bits of the significand of an f32, the hidden bit included
MantBits == 24

\* exponent of the least significant bit of the smallest and of the
\* largest finite f32
MinExp == -149

MaxExp == 104

F32Num(s, m, e) == [k |-> "num", s |-> s, m |-> m, e |-> e]

F32Zero(s) == F32Num(s, 0, MinExp)

F32Inf(s) == [k |-> "inf", s |-> s, m |-> 0, e |-> MaxExp + 1]

F32NaN == [k |-> "nan", s |-> 0, m |-> 0, e |-> 0]

Min2(a, b) == IF a < b THEN a ELSE b

Max2(a, b) == IF a > b THEN a ELSE b

RECURSIVE BitLen(_)
\* number of bits of m
BitLen(m) == IF m = 0 THEN 0 ELSE 1 + BitLen(m \div 2)

\* the f32 nearest to (-1)^s * (m + t) * 2^e, where m < 2^30 and t is 0, or
\* some value strictly between 0 and 1 when sticky (m then has 26 bits or
\* more); ties go to the even significand, overflow goes to infinity
F32Round(s, m, e, sticky) ==
    LET len == BitLen(m)
        drop == Max2(len - MantBits, MinExp - e)
        shift == Min2(MantBits - len, e - MinExp)
        q == IF drop > 30 THEN 0 ELSE m \div (2 ^ drop)
        rem == IF drop > 30 THEN m ELSE m % (2 ^ drop)
        half == IF drop > 30 THEN 2 ^ 30 ELSE 2 ^ (drop - 1)
        roundUp == rem > half \/ (rem = half /\ (sticky \/ q % 2 = 1))
        r == IF drop <= 0 THEN m * (2 ^ shift)
             ELSE IF roundUp THEN q + 1 ELSE q
        re == IF drop <= 0 THEN e - shift ELSE e + drop
        carry == r = 2 ^ MantBits
        fm == IF carry THEN 2 ^ (MantBits - 1) ELSE r
        fe == IF carry THEN re + 1 ELSE re
    IN  IF fm = 0 THEN F32Zero(s)
        ELSE IF fe > MaxExp THEN F32Inf(s)
        ELSE F32Num(s, fm, fe)

\* a nonzero number with its significand shifted up to 24 bits
F32Norm(a) ==
    LET sh == MantBits - BitLen(a.m)
    IN  [m |-> a.m * (2 ^ sh), e |-> a.e - sh]

IsNaN(a) == a.k = "nan"

IsInf(a) == a.k = "inf"

IsZero(a) == a.k = "num" /\ a.m = 0

\* the integer n as f32 (as f32 of an integer below 2^30)
F32Int(n) == F32Round(IF n < 0 THEN 1 ELSE 0, IF n < 0 THEN -n ELSE n, 0, FALSE)

\* -a
F32Neg(a) == IF IsNaN(a) THEN a ELSE [a EXCEPT !.s = 1 - a.s]

\* |a| < |b|, neither is NaN
MagLess(a, b) == a.e < b.e \/ (a.e = b.e /\ a.m < b.m)

\* a < b on f32: false when either is NaN; -0.0 < 0.0 is false
F32Lt(a, b) ==
    /\ ~IsNaN(a) /\ ~IsNaN(b)
    /\ IF a.s = b.s THEN (IF a.s = 0 THEN MagLess(a, b) ELSE MagLess(b, a))
       ELSE a.s = 1 /\ ~(IsZero(a) /\ IsZero(b))

\* a == b on f32: false when either is NaN; -0.0 == 0.0
F32Eq(a, b) ==
    /\ ~IsNaN(a) /\ ~IsNaN(b)
    /\ a.k = b.k /\ a.m = b.m /\ a.e = b.e
    /\ (a.s = b.s \/ IsZero(a))

\* a + b for finite nonzero a, b with a's exponent the larger one: with three
\* guard bits on a, and the bits b loses in the alignment kept as sticky
F32AddAligned(a, b) ==
    LET na == F32Norm(a)
        nb == F32Norm(b)
        d == na.e - nb.e
        A == na.m * 8
        B == IF d > 27 THEN 0 ELSE (nb.m * 8) \div (2 ^ d)
        sticky == IF d > 27 THEN TRUE ELSE (nb.m * 8) % (2 ^ d) # 0
    IN  IF a.s = b.s THEN F32Round(a.s, A + B, na.e - 3, sticky)
        ELSE IF A = B /\ ~sticky THEN F32Zero(0)
        ELSE IF A < B THEN F32Round(b.s, B - A, na.e - 3, FALSE)
        ELSE IF sticky THEN F32Round(a.s, A - B - 1, na.e - 3, TRUE)
        ELSE F32Round(a.s, A - B, na.e - 3, FALSE)

\* a + b
F32Add(a, b) ==
    IF IsNaN(a) \/ IsNaN(b) THEN F32NaN
    ELSE IF IsInf(a) THEN (IF IsInf(b) /\ a.s # b.s THEN F32NaN ELSE a)
    ELSE IF IsInf(b) THEN b
    ELSE IF IsZero(a) /\ IsZero(b) THEN F32Zero(IF a.s = 1 /\ b.s = 1 THEN 1 ELSE 0)
    ELSE IF IsZero(a) THEN b
    ELSE IF IsZero(b) THEN a
    ELSE IF F32Norm(a).e >= F32Norm(b).e THEN F32AddAligned(a, b)
    ELSE F32AddAligned(b, a)

\* a - b
F32Sub(a, b) == F32Add(a, F32Neg(b))

\* a * b: the 48-bit product of the significands from their 12-bit halves,
\* its top bits kept and the rest as sticky
F32Mul(a, b) ==
    LET s == IF a.s = b.s THEN 0 ELSE 1
        na == F32Norm(a)
        nb == F32Norm(b)
        ah == na.m \div 4096
        al == na.m % 4096
        bh == nb.m \div 4096
        bl == nb.m % 4096
        mid == ah * bl + al * bh
        lofull == al * bl + (mid % 4096) * 4096
        lo == lofull % (2 ^ 24)
        hi == ah * bh + (mid \div 4096) + (lofull \div (2 ^ 24))
    IN  IF IsNaN(a) \/ IsNaN(b) THEN F32NaN
        ELSE IF IsInf(a) \/ IsInf(b)
        THEN (IF IsZero(a) \/ IsZero(b) THEN F32NaN ELSE F32Inf(s))
        ELSE IF IsZero(a) \/ IsZero(b) THEN F32Zero(s)
        ELSE F32Round(s, hi * 32 + (lo \div (2 ^ 19)), na.e + nb.e + 19,
                      lo % (2 ^ 19) # 0)

RECURSIVE DivSteps(_, _, _, _)
\* n steps of the long division of r by d: the quotient bits are appended
\* to q
DivSteps(q, r, d, n) ==
    IF n = 0 THEN [q |-> q, r |-> r]
    ELSE IF 2 * r >= d THEN DivSteps(2 * q + 1, 2 * r - d, d, n - 1)
    ELSE DivSteps(2 * q, 2 * r, d, n - 1)

\* a / b: 26 bits of the quotient of the significands after the first one,
\* the remainder as sticky
F32Div(a, b) ==
    LET s == IF a.s = b.s THEN 0 ELSE 1
        na == F32Norm(a)
        nb == F32Norm(b)
        qr == DivSteps(na.m \div nb.m, na.m % nb.m, nb.m, 26)
    IN  IF IsNaN(a) \/ IsNaN(b) THEN F32NaN
        ELSE IF IsInf(a) THEN (IF IsInf(b) THEN F32NaN ELSE F32Inf(s))
        ELSE IF IsInf(b) THEN F32Zero(s)
        ELSE IF IsZero(b) THEN (IF IsZero(a) THEN F32NaN ELSE F32Inf(s))
        ELSE IF IsZero(a) THEN F32Zero(s)
        ELSE F32Round(s, qr.q, na.e - nb.e - 26, qr.r # 0)

\* the f32 literal n/d written in decimal, such as 0.9 for 9/10: the f32
\* nearest to the fraction
F32Lit(n, d) == F32Div(F32Int(n), F32Int(d))

\* f32::clamp(min, max)
clamp(x, min, max) ==
    IF F32Lt(x, min) THEN min
    ELSE IF F32Lt(max, x) THEN max
    ELSE x

\* f32::EPSILON, 2^-23
EPSILON == F32Num(0, 2 ^ (MantBits - 1), 2 - 2 * MantBits)

---------------------------------------------------------------------------
(* nars.rs: TruthValue *)

\* Self { frequency, confidence }
TruthValue(frequency, confidence) ==
    [frequency |-> frequency, confidence |-> confidence]

\* the f32 literals of nars.rs
Lit_0_0 == F32Zero(0)

Lit_0_5 == F32Lit(5, 10)

Lit_0_9 == F32Lit(9, 10)

Lit_1_0 == F32Int(1)

new(frequency, confidence) ==
    TruthValue(clamp(frequency, Lit_0_0, Lit_1_0),
               clamp(confidence, Lit_0_0, Lit_1_0))

unknown == TruthValue(Lit_0_5, Lit_0_0)

certain_true == TruthValue(Lit_1_0, Lit_0_9)

certain_false == TruthValue(Lit_0_0, Lit_0_9)

from_evidence(positive, negative) ==
    LET total == F32Add(positive, negative)
        frequency == F32Div(positive, total)
        confidence == F32Div(total, F32Add(total, Lit_1_0))
    IN  IF F32Eq(total, Lit_0_0) THEN unknown
        ELSE TruthValue(frequency, confidence)

deduction(self, other) ==
    LET f == F32Mul(self.frequency, other.frequency)
        c == F32Mul(F32Mul(F32Mul(self.confidence, other.confidence),
                           self.frequency), other.frequency)
    IN  new(f, c)

induction(self, other) ==
    LET f == other.frequency
        c == F32Div(F32Mul(F32Mul(self.frequency, self.confidence),
                           other.confidence),
                    F32Add(self.frequency, Lit_1_0))
    IN  new(f, c)

abduction(self, other) ==
    LET f == self.frequency
        c == F32Div(F32Mul(F32Mul(other.frequency, self.confidence),
                           other.confidence),
                    F32Add(other.frequency, Lit_1_0))
    IN  new(f, c)

revision(self, other) ==
    LET w1 == F32Div(self.confidence,
                     F32Add(F32Sub(Lit_1_0, self.confidence), EPSILON))
        w2 == F32Div(other.confidence,
                     F32Add(F32Sub(Lit_1_0, other.confidence), EPSILON))
        w == F32Add(w1, w2)
        f == F32Div(F32Add(F32Mul(w1, self.frequency),
                           F32Mul(w2, other.frequency)),
                    F32Add(w, EPSILON))
        c == F32Div(w, F32Add(w, Lit_1_0))
    IN  new(f, c)

negation(self) == new(F32Sub(Lit_1_0, self.frequency), self.confidence)

---------------------------------------------------------------------------
(* The caller of the gate *)

\* no truth value has been built
TvIdle ==
    /\ tvA = None
    /\ tvB = None
    /\ tvOp = "none"
    /\ tvArgs = <<>>
    /\ tvOut = None
    /\ tvDepth = 0

\* no MetaAGI has been constructed
AgiIdle ==
    /\ session = None
    /\ blackboard = None
    /\ resonance = None
    /\ concepts = None
    /\ global_cycle = None
    /\ agiOp = "none"
    /\ agiCycle = None

\* no fingerprint has been built and no fingerprint operation has run
FpIdle ==
    /\ fpA = None
    /\ fpB = None
    /\ fpC = None
    /\ fpOp = "none"
    /\ fpOut = None
    /\ fpHam = 0
    /\ fpSim = Rat(0, 1)
    /\ fpDepth = 0

Returned == pc = "done" /\ decision.outcome = "returned"

IsHold(d) == d.outcome = "returned" /\ d.action.tag = "Hold"

GateIdle ==
    /\ scores = <<>>
    /\ clarification = FALSE
    /\ pc = "idle"
    /\ decision = NoDecision
    /\ now = 0
    /\ holdKeys = <<>>

GateInit ==
    /\ GateIdle
    /\ FpIdle
    /\ TvIdle
    /\ AgiIdle

\* the caller appends one more candidate score to the slice it will pass
PushScore(limit) ==
    /\ pc = "idle"
    /\ Len(scores) < limit
    /\ \E v \in ScoreValues : scores' = Append(scores, v)
    /\ UNCHANGED <<clarification, pc, decision, now, holdKeys>>
    /\ UNCHANGED <<fpVars, tvVars, agiVars>>

\* one call of evaluate_gate, from entry to return or panic; clar is the
\* caller's clarification_available, and log says whether the history of
\* Hold keys is kept
Evaluate(clar, log) ==
    /\ pc = "idle"
    /\ LET d == evaluate_gate(scores, clar, now)
       IN  /\ decision' = d
           /\ holdKeys' = IF log /\ IsHold(d)
                          THEN Append(holdKeys, d.action.sppm_key)
                          ELSE holdKeys
    /\ clarification' = clar
    /\ pc' = "done"
    /\ UNCHANGED <<scores, now>>
    /\ UNCHANGED <<fpVars, tvVars, agiVars>>

\* the caller drops the decision and prepares the next call
NextCall ==
    /\ pc = "done"
    /\ pc' = "idle"
    /\ scores' = <<>>
    /\ clarification' = FALSE
    /\ decision' = NoDecision
    /\ UNCHANGED <<now, holdKeys>>
    /\ UNCHANGED <<fpVars, tvVars, agiVars>>

\* the system clock advances
Tick ==
    /\ now < MaxClock
    /\ now' = now + 1
    /\ UNCHANGED <<scores, clarification, pc, decision, holdKeys>>
    /\ UNCHANGED <<fpVars, tvVars, agiVars>>

PushCandidate == PushScore(MaxCandidates)

EvaluateGate == \E clar \in BOOLEAN : Evaluate(clar, FALSE)

GateNext ==
    \/ PushCandidate
    \/ EvaluateGate
    \/ NextCall
    \/ Tick

SpecGate == GateInit /\ [][GateNext]_vars

PushKeyCandidate == PushScore(MaxKeyCandidates)

EvaluateGateLogged ==
    /\ Len(holdKeys) < MaxHolds
    /\ \E clar \in BOOLEAN : Evaluate(clar, TRUE)

KeysNext ==
    \/ PushKeyCandidate
    \/ EvaluateGateLogged
    \/ NextCall
    \/ Tick

SpecKeys == GateInit /\ [][KeysNext]_vars

---------------------------------------------------------------------------
(* The caller of the fingerprint operations *)

\* a u64 from its bytes, most significant first
RECURSIVE U64Bits(_, _)
U64Bits(bytes, k) ==
    IF k > Len(bytes) THEN {}
    ELSE {8 * (Len(bytes) - k) + b : b \in {c \in 0..7 : (bytes[k] \div (2 ^ c)) % 2 = 1}}
             \cup U64Bits(bytes, k + 1)

\* hasher.finish() of DefaultHasher (SipHash-1-3, zero keys) for the contents
\* "hello", "world", "red", "apple" of the tests of core.rs
HashValues ==
    [hello |-> U64Bits(<<224, 55, 135, 107, 136, 11, 142, 217>>, 1),
     world |-> U64Bits(<<64, 16, 215, 105, 43, 19, 236, 36>>, 1),
     red   |-> U64Bits(<<20, 87, 100, 3, 239, 72, 68, 152>>, 1),
     apple |-> U64Bits(<<37, 43, 39, 144, 153, 14, 229, 134>>, 1)]

\* the contents callers encode
Contents == {"red", "apple"}

\* from_content of every content, computed once
Encoded == [c \in Contents |-> from_content(HashValues[c])]

\* the raw word array callers pass to from_raw: [u64::MAX; FINGERPRINT_U64]
RawValues == {[w \in Words |-> Bits]}

\* the permute distances callers use
Shifts == {1, -1, WordBits}

\* fingerprints the constructors give
Inputs ==
    {Encoded[c] : c \in Contents}
        \cup {from_raw(r) : r \in RawValues}
        \cup {zero}

FpInit ==
    /\ GateIdle
    /\ TvIdle
    /\ AgiIdle
    /\ fpA \in Inputs
    /\ fpB \in Inputs
    /\ fpC \in Inputs
    /\ fpOp = "none"
    /\ fpOut = None
    /\ fpHam = 0
    /\ fpSim = Rat(0, 1)
    /\ fpDepth = 0

\* an operation returning a Fingerprint
FpReturn(op, fp) ==
    /\ fpOp' = op
    /\ fpOut' = fp
    /\ fpHam' = 0
    /\ fpSim' = Rat(0, 1)
    /\ UNCHANGED <<fpA, fpB, fpC, fpDepth>>
    /\ UNCHANGED <<gateVars, tvVars, agiVars>>

FromContent == \E c \in Contents : FpReturn("from_content", Encoded[c])

FromRaw == \E r \in RawValues : FpReturn("from_raw", from_raw(r))

Zero == FpReturn("zero", zero)

Bind == FpReturn("bind", bind(fpA, fpB))

Unbind == FpReturn("unbind", unbind(fpA, fpB))

Permute == \E k \in Shifts : FpReturn("permute", permute(fpA, k))

Similarity ==
    /\ fpOp' = "similarity"
    /\ fpOut' = None
    /\ fpHam' = hamming(fpA, fpB)
    /\ fpSim' = similarity(fpA, fpB)
    /\ UNCHANGED <<fpA, fpB, fpC, fpDepth>>
    /\ UNCHANGED <<gateVars, tvVars, agiVars>>

\* the caller uses the fingerprint returned by bind, unbind or permute as an
\* operand of later operations
Feed ==
    /\ fpOp \in {"bind", "unbind", "permute"}
    /\ fpDepth < MaxFeed
    /\ fpA' = fpOut
    /\ fpB' = fpA
    /\ fpC' = fpB
    /\ fpOp' = "none"
    /\ fpOut' = None
    /\ fpDepth' = fpDepth + 1
    /\ UNCHANGED <<fpHam, fpSim>>
    /\ UNCHANGED <<gateVars, tvVars, agiVars>>

FpNext ==
    \/ FromContent
    \/ FromRaw
    \/ Zero
    \/ Bind
    \/ Unbind
    \/ Permute
    \/ Similarity
    \/ Feed

SpecFp == FpInit /\ [][FpNext]_vars

Spec == SpecGate

---------------------------------------------------------------------------
(* The caller of the truth value operations *)

\* the (frequency, confidence) arguments the caller passes to new: the two
\* pairs of test_revision, two pairs with confidence near 0 and near 1, and
\* a pair outside [0, 1]
NewArgs ==
    { <<F32Lit(8, 10), F32Lit(8, 10)>>,
      <<F32Lit(9, 10), F32Lit(7, 10)>>,
      <<F32Lit(5, 10), F32Lit(1, 10)>>,
      <<F32Lit(5, 10), F32Lit(999, 1000)>>,
      <<F32Lit(15, 10), F32Lit(-5, 10)>> }

\* the evidence counts the caller passes to from_evidence:
\* -1.0, -0.5, 0.0, 1.0 and 9.0
Counts == {F32Lit(n, 2) : n \in {-2, -1, 0, 2, 18}}

\* the operations that take truth values
TvOperations == {"deduction", "induction", "abduction", "revision", "negation"}

\* the truth values the caller starts from
Operands == {new(a[1], a[2]) : a \in NewArgs} \cup {unknown, certain_true}

TvInit ==
    /\ GateIdle
    /\ FpIdle
    /\ AgiIdle
    /\ tvA \in Operands
    /\ tvB \in Operands
    /\ tvOp = "none"
    /\ tvArgs = <<>>
    /\ tvOut = None
    /\ tvDepth = 0

\* a constructor or an operation returns tv
TvReturn(op, args, tv) ==
    /\ tvOp' = op
    /\ tvArgs' = args
    /\ tvOut' = tv
    /\ UNCHANGED <<tvA, tvB, tvDepth>>
    /\ UNCHANGED <<gateVars, fpVars, agiVars>>

New == \E a \in NewArgs : TvReturn("new", a, new(a[1], a[2]))

Unknown == TvReturn("unknown", <<>>, unknown)

CertainTrue == TvReturn("certain_true", <<>>, certain_true)

CertainFalse == TvReturn("certain_false", <<>>, certain_false)

FromEvidence ==
    \E positive \in Counts, negative \in Counts :
        TvReturn("from_evidence", <<positive, negative>>,
                 from_evidence(positive, negative))

Deduction == TvReturn("deduction", <<>>, deduction(tvA, tvB))

Induction == TvReturn("induction", <<>>, induction(tvA, tvB))

Abduction == TvReturn("abduction", <<>>, abduction(tvA, tvB))

Revision == TvReturn("revision", <<>>, revision(tvA, tvB))

Negation == TvReturn("negation", <<>>, negation(tvA))

\* the caller uses the truth value an operation returned as self of the next
\* operation, and the former self as other
TvFeed ==
    /\ tvOp \in TvOperations
    /\ tvDepth < MaxChain
    /\ tvA' = tvOut
    /\ tvB' = tvA
    /\ tvOp' = "none"
    /\ tvArgs' = <<>>
    /\ tvOut' = None
    /\ tvDepth' = tvDepth + 1
    /\ UNCHANGED <<gateVars, fpVars, agiVars>>

TvNext ==
    \/ New
    \/ Unknown
    \/ CertainTrue
    \/ CertainFalse
    \/ FromEvidence
    \/ Deduction
    \/ Induction
    \/ Abduction
    \/ Revision
    \/ Negation
    \/ TvFeed

SpecNars == TvInit /\ [][TvNext]_vars

---------------------------------------------------------------------------
(* lib.rs: MetaAGI.  The module learning is called, not defined, by lib.rs:  *)
(* of ResonanceCapture, ConceptExtractor, LearningSession and Blackboard the *)
(* model keeps what MetaAGI hands to them and reads from them.               *)

\* the kinds of the moments the caller captures
MomentKinds == {"Encounter", "Breakthrough"}

\* the task_id arguments of start_session
TaskIds == {"test-task", "implement-sprints"}

\* ResonanceCapture::new()
ResonanceNew == [entries |-> <<>>, total_captures |-> 0]

\* ResonanceCapture::capture(moment, cycle): appends the entry and counts it
capture(memory, moment, cycle) ==
    [entries |-> Append(memory.entries, [moment |-> moment, cycle |-> cycle]),
     total_captures |-> memory.total_captures + 1]

\* ConceptExtractor::new()
ConceptsNew == [total_extractions |-> 0]

\* Moment::is_breakthrough
is_breakthrough(moment) == moment = "Breakthrough"

\* ConceptExtractor::extract when it returns Some(concept)
extract(extractor) == [total_extractions |-> extractor.total_extractions + 1]

\* Blackboard::new(&session.id, task_id, description)
BlackboardNew(task_id) ==
    [task_id |-> task_id, resonance_captures |-> 0, concepts_extracted |-> 0]

\* MetaAGI::new()
AgiInit ==
    /\ GateIdle
    /\ FpIdle
    /\ TvIdle
    /\ session = None
    /\ blackboard = None
    /\ resonance = ResonanceNew
    /\ concepts = ConceptsNew
    /\ global_cycle = 0
    /\ agiOp = "new"
    /\ agiCycle = None

StartSession ==
    /\ \E task_id \in TaskIds :
        /\ session' = Some(task_id)
        /\ blackboard' = Some(BlackboardNew(task_id))
    /\ agiOp' = "start_session"
    /\ agiCycle' = None
    /\ UNCHANGED <<resonance, concepts, global_cycle>>
    /\ UNCHANGED <<gateVars, fpVars, tvVars>>

\* the rest of capture_moment once the memory has been handed the cycle:
\* for a breakthrough the extractor runs, and when it returns a concept the
\* blackboard, if there is one, counts it
CaptureRest(moment, cycle) ==
    /\ resonance' = capture(resonance, moment, cycle)
    /\ agiCycle' = Some(cycle)
    /\ agiOp' = "capture_moment"
    /\ \/ /\ is_breakthrough(moment)
          /\ concepts' = extract(concepts)
          /\ blackboard' =
                IF blackboard = None THEN None
                ELSE Some([blackboard[1] EXCEPT
                              !.concepts_extracted = @ + 1])
       \/ /\ UNCHANGED <<concepts, blackboard>>
    /\ UNCHANGED session
    /\ UNCHANGED <<gateVars, fpVars, tvVars>>

\* capture_moment handing the memory the cycle as it was before the increment
CaptureMomentStale ==
    /\ global_cycle < MaxCycle
    /\ \E moment \in MomentKinds :
        /\ global_cycle' = global_cycle + 1
        /\ CaptureRest(moment, global_cycle)

\* self.global_cycle += 1; self.resonance.capture(moment, self.global_cycle)
CaptureMoment ==
    /\ global_cycle < MaxCycle
    /\ \E moment \in MomentKinds :
        /\ global_cycle' = global_cycle + 1
        /\ CaptureRest(moment, global_cycle')

\* a method that reads the state and changes none of it; cycle is what it
\* hands to the memory
AgiQuery(op, cycle) ==
    /\ agiOp' = op
    /\ agiCycle' = cycle
    /\ UNCHANGED <<session, blackboard, resonance, concepts, global_cycle>>
    /\ UNCHANGED <<gateVars, fpVars, tvVars>>

\* self.resonance.find_resonant(query, threshold, limit, self.global_cycle)
FindSimilar == AgiQuery("find_similar", Some(global_cycle))

\* learning::find_sweet_spot(&mut self.resonance, query, self.global_cycle)
FindSweetSpot == AgiQuery("find_sweet_spot", Some(global_cycle))

SyncBlackboard ==
    /\ blackboard' =
            IF session # None /\ blackboard # None
            THEN Some([blackboard[1] EXCEPT
                          !.resonance_captures = resonance.total_captures,
                          !.concepts_extracted = concepts.total_extractions])
            ELSE blackboard
    /\ agiOp' = "sync_blackboard"
    /\ agiCycle' = None
    /\ UNCHANGED <<session, resonance, concepts, global_cycle>>
    /\ UNCHANGED <<gateVars, fpVars, tvVars>>

Stats == AgiQuery("stats", None)

AgiNext ==
    \/ StartSession
    \/ CaptureMoment
    \/ FindSimilar
    \/ FindSweetSpot
    \/ SyncBlackboard
    \/ Stats

SpecAgi == AgiInit /\ [][AgiNext]_vars

---------------------------------------------------------------------------
(* Properties of the collapse gate *)

\* candidate_scores as fixed-point numbers, for inputs without NaN
RECURSIVE SumInt(_, _)
SumInt(xs, i) == IF i > Len(xs) THEN 0 ELSE xs[i] + SumInt(xs, i + 1)

\* the 0-based index of the first maximum of a slice without NaN
FirstArgmax(s) ==
    CHOOSE i \in 0..(Len(s) - 1) :
        /\ \A j \in 0..(Len(s) - 1) : s[j + 1].v <= s[i + 1].v
        /\ \A j \in 0..(i - 1) : s[j + 1].v < s[i + 1].v

\* (n * sum(x^2) - sum(x)^2) / n^2, the population variance
PopulationVariance(s) ==
    LET n == Len(s)
        sx == SumInt([i \in 1..n |-> s[i].v], 1)
        sxx == SumInt([i \in 1..n |-> s[i].v * s[i].v], 1)
    IN  Rat(n * sxx - sx * sx, n * n)

\* C1: with two or more candidates the winner is the index of the maximum
\* score, the first such index when several scores share the maximum, and
\* winner_score is the score at that index.
C1_WinnerIsFirstArgmax ==
    (Returned /\ Len(scores) >= 2) =>
        /\ decision.winner_index = Some(FirstArgmax(scores))
        /\ decision.winner_score = Some(scores[FirstArgmax(scores) + 1])

\* C2: any two Hold actions returned in one process carry different
\* sppm_key values, whether or not the clock advanced between the calls.
C2_HoldKeysUnique ==
    \A i, j \in 1..Len(holdKeys) : i # j => holdKeys[i] # holdKeys[j]

\* C3: with two or more candidates the dispersion is the population standard
\* deviation; the state is FLOW when dispersion < 30% of SD_MAX, BLOCK when
\* dispersion > 70% of SD_MAX and HOLD otherwise, equality with a threshold
\* included; [3,3,3,3] gives 0 and FLOW, [0,10,0,10] gives 5 and BLOCK.
C3_DispersionAndState ==
    (Returned /\ Len(scores) >= 2) =>
        LET pv == PopulationVariance(scores)
            \* 10 * sd < 3 * SD_MAX and 10 * sd > 7 * SD_MAX, squared
            below == RatLess(RatMul(Rat(100, 1), pv), Rat(9 * SD_MAX * SD_MAX, 1))
            above == RatLess(Rat(49 * SD_MAX * SD_MAX, 1), RatMul(Rat(100, 1), pv))
        IN  /\ decision.sd = SdFinite(pv)
            /\ below => decision.state = "Flow"
            /\ above => decision.state = "Block"
            /\ (~below /\ ~above) => decision.state = "Hold"
            /\ scores = <<F(3 * Scale), F(3 * Scale), F(3 * Scale), F(3 * Scale)>> =>
                   /\ decision.sd.sq = Rat(0, 1)
                   /\ decision.state = "Flow"
            /\ scores = <<F(0), F(10 * Scale), F(0), F(10 * Scale)>> =>
                   /\ decision.sd.sq = Rat((5 * Scale) * (5 * Scale), 1)
                   /\ decision.state = "Block"

\* a call whose dispersion equals the block threshold exactly (0.3 and 1.0
\* give 0.35) and is answered HOLD
C3_Witness ==
    /\ Returned
    /\ scores = <<F(30), F(100)>>
    /\ decision.sd.sq = Rat(SD_BLOCK_THRESHOLD * SD_BLOCK_THRESHOLD, 1)
    /\ decision.state = "Hold"

\* C4: in every returned decision can_collapse holds exactly when the state
\* is FLOW and exactly when the action is Collapse, and then the action's
\* winner_index is the decision's winner_index.
C4_CollapseIffFlow ==
    Returned =>
        /\ decision.can_collapse <=> decision.state = "Flow"
        /\ decision.can_collapse <=> decision.action.tag = "Collapse"
        /\ decision.action.tag = "Collapse" =>
               decision.winner_index = Some(decision.action.winner_index)

\* a call on several candidates that permits commitment
C4_Witness ==
    /\ Returned
    /\ Len(scores) >= 2
    /\ decision.can_collapse
    /\ decision.action.tag = "Collapse"
    /\ decision.action.winner_index > 0

\* C5: for a non-empty slice, HOLD gives Hold whatever the flag, BLOCK gives
\* Clarify with clarification available and Hold without; Block is never the
\* action; and the flag changes neither state, dispersion nor winner.
C5_ActionByStateAndFlag ==
    (Returned /\ Len(scores) >= 1) =>
        LET other == evaluate_gate(scores, ~clarification, now)
        IN  /\ decision.state = "Hold" => decision.action.tag = "Hold"
            /\ (decision.state = "Block" /\ clarification) =>
                   decision.action.tag = "Clarify"
            /\ (decision.state = "Block" /\ ~clarification) =>
                   decision.action.tag = "Hold"
            /\ decision.action.tag # "Block"
            /\ other.outcome = "returned"
            /\ other.state = decision.state
            /\ other.sd = decision.sd
            /\ other.winner_index = decision.winner_index
            /\ other.winner_score = decision.winner_score

\* a BLOCK decision without clarification, answered with Hold
C5_Witness ==
    /\ Returned
    /\ decision.state = "Block"
    /\ ~clarification
    /\ decision.action.tag = "Hold"

\* C6: on the empty slice evaluate_gate returns, for either flag, state BLOCK,
\* infinite dispersion, can_collapse = false, the Block action with a reason,
\* and neither winner index nor winner score.
C6_EmptyIsBlock ==
    (pc = "done" /\ scores = <<>>) =>
        /\ decision.outcome = "returned"
        /\ decision.state = "Block"
        /\ decision.sd.kind = "inf"
        /\ ~decision.can_collapse
        /\ decision.action.tag = "Block"
        /\ decision.action.reason # ""
        /\ decision.reason # <<>>
        /\ decision.winner_index = None
        /\ decision.winner_score = None

\* a call on the empty slice with clarification available
C6_Witness ==
    /\ pc = "done"
    /\ scores = <<>>
    /\ clarification

\* C7: evaluate_gate is total: every call returns a CollapseDecision, also
\* when two or more scores include a NaN; it never panics.
C7_NeverPanics ==
    pc = "done" => decision.outcome = "returned"

---------------------------------------------------------------------------
(* Properties of the fingerprint algebra *)

RatLeq(a, b) == ~RatLess(b, a)

\* the storage positions at or beyond FINGERPRINT_BITS that are set in fp
HighBits(fp) ==
    {p \in FINGERPRINT_BITS..(FINGERPRINT_U64 * WordBits - 1) : get_bit(fp, p)}

\* C8: for all fingerprints the public API constructs, similarity lies in
\* [0,1], that is hamming never exceeds FINGERPRINT_BITS, and a fingerprint's
\* similarity to itself is 1.0.
C8_SimilarityInUnitRange ==
    fpOp = "similarity" =>
        /\ fpHam <= FINGERPRINT_BITS
        /\ RatLeq(Rat(0, 1), fpSim)
        /\ RatLeq(fpSim, Rat(1, 1))
        /\ fpA = fpB => fpSim = Rat(1, 1)

\* C9: no fingerprint returned by from_content, bind, unbind or permute has a
\* bit set at a position >= FINGERPRINT_BITS.
C9_NoBitBeyondWidth ==
    fpOp \in {"from_content", "bind", "unbind", "permute"} =>
        HighBits(fpOut) = {}

\* C10: bind is self-inverse (bind(bind(a,b),a) = b and unbind(bind(a,b),a)
\* = b), commutative and associative, with bit-for-bit equality.
C10_BindAlgebra ==
    fpOp = "bind" =>
        /\ bind(fpOut, fpA) = fpB
        /\ unbind(fpOut, fpA) = fpB
        /\ fpOut = bind(fpB, fpA)
        /\ bind(fpOut, fpC) = bind(fpA, bind(fpB, fpC))

\* bind has run on three different operands, the first of them itself the
\* result of an earlier operation, and the second with bits in the last word
C10_Witness ==
    /\ fpOp = "bind"
    /\ fpDepth > 0
    /\ fpA \notin Inputs
    /\ fpA # fpB /\ fpB # fpC /\ fpA # fpC
    /\ fpB[FINGERPRINT_U64 - 1] # {}
    /\ fpOut # zero

---------------------------------------------------------------------------
(* Properties of the truth values *)

\* 0.0 <= x <= 1.0
InUnitRange(x) == ~IsNaN(x) /\ ~F32Lt(x, Lit_0_0) /\ ~F32Lt(Lit_1_0, x)

\* 0.0 < x < 1.0
InsideUnitRange(x) == F32Lt(Lit_0_0, x) /\ F32Lt(x, Lit_1_0)

\* C11: every TruthValue a constructor or an operation returns has its
\* frequency and its confidence in [0, 1], whatever the numeric arguments,
\* negative evidence counts included.
C11_TruthValueInRange ==
    tvOut # None =>
        /\ InUnitRange(tvOut.frequency)
        /\ InUnitRange(tvOut.confidence)

\* C12: from_evidence returns unknown (0.5, 0.0) exactly when both counts are
\* zero; for every other pair of counts no divisor is zero, frequency is
\* positive / (positive + negative) and confidence is total / (total + 1).
C12_FromEvidence ==
    tvOp = "from_evidence" =>
        LET positive == tvArgs[1]
            negative == tvArgs[2]
            bothZero == IsZero(positive) /\ IsZero(negative)
            total == F32Add(positive, negative)
        IN  /\ (tvOut = unknown) <=> bothZero
            /\ ~bothZero =>
                /\ ~IsZero(total)
                /\ ~IsZero(F32Add(total, Lit_1_0))
                /\ tvOut.frequency = F32Div(positive, total)
                /\ tvOut.confidence = F32Div(total, F32Add(total, Lit_1_0))

\* C13: when both confidences are strictly between 0 and 1, the frequency of
\* revision(A, B) lies between A's and B's (strictly when they differ) and
\* its confidence is strictly greater than both A's and B's.
C13_RevisionCombines ==
    (/\ tvOp = "revision"
     /\ InsideUnitRange(tvA.confidence)
     /\ InsideUnitRange(tvB.confidence)) =>
        LET lo == IF F32Lt(tvA.frequency, tvB.frequency)
                  THEN tvA.frequency ELSE tvB.frequency
            hi == IF F32Lt(tvA.frequency, tvB.frequency)
                  THEN tvB.frequency ELSE tvA.frequency
        IN  /\ ~F32Lt(tvOut.frequency, lo)
            /\ ~F32Lt(hi, tvOut.frequency)
            /\ F32Lt(lo, hi) =>
                   F32Lt(lo, tvOut.frequency) /\ F32Lt(tvOut.frequency, hi)
            /\ F32Lt(tvA.confidence, tvOut.confidence)
            /\ F32Lt(tvB.confidence, tvOut.confidence)

---------------------------------------------------------------------------
(* Properties of the orchestrator *)

\* the cycles of the entries of a memory, in the order of their capture
CaptureCycles(memory) ==
    [i \in 1..Len(memory.entries) |-> memory.entries[i].cycle]

\* what C14 says of one step of the orchestrator
C14Step ==
    /\ global_cycle' >= global_cycle
    /\ agiOp' = "capture_moment" =>
        /\ global_cycle' = global_cycle + 1
        /\ agiCycle' = Some(global_cycle')
        /\ CaptureCycles(resonance') =
               Append(CaptureCycles(resonance), global_cycle')
    /\ agiOp' # "capture_moment" =>
        /\ global_cycle' = global_cycle
        /\ CaptureCycles(resonance') = CaptureCycles(resonance)
    /\ agiOp' \in {"find_similar", "find_sweet_spot"} =>
        /\ agiCycle' = Some(global_cycle)
        /\ \A i \in 1..Len(resonance'.entries) :
               resonance'.entries[i].cycle <= agiCycle'[1]
    /\ \A i \in 1..Len(resonance'.entries) :
        /\ resonance'.entries[i].cycle >= 1
        /\ i > 1 => resonance'.entries[i - 1].cycle < resonance'.entries[i].cycle

\* C14: global_cycle never decreases; capture_moment raises it by exactly 1
\* and hands the new value to the memory as the capture cycle, so the capture
\* cycles are strictly increasing from 1; start_session, the queries,
\* sync_blackboard and stats leave global_cycle unchanged, and the cycle a
\* query hands to the memory is never below a stored capture cycle.
C14_CycleMonotone == [][C14Step]_vars

\* a query runs with a session open and two or more moments captured
C14_Witness ==
    /\ agiOp \in {"find_similar", "find_sweet_spot"}
    /\ session # None
    /\ Len(resonance.entries) >= 2
    /\ agiCycle = Some(global_cycle)

---------------------------------------------------------------------------
(* Properties of permute *)

RECURSIVE PopCountOver(_, _, _)
\* the number of set bits of the words lo..hi (split in halves: the
\* recursion stays shallow)
PopCountOver(fp, lo, hi) ==
    IF lo > hi THEN 0
    ELSE IF lo = hi THEN Cardinality(fp[lo])
    ELSE LET mid == (lo + hi) \div 2
         IN  PopCountOver(fp, lo, mid) + PopCountOver(fp, mid + 1, hi)

\* the number of set bits of the whole storage of a fingerprint
PopCount(fp) == PopCountOver(fp, 0, FINGERPRINT_U64 - 1)

\* C15: permute is a lossless rotation of the fingerprints that from_content
\* and from_raw build: permuting back by -k gives the fingerprint again bit
\* for bit, permuting by 0 changes nothing, and the number of set bits stays.
C15_PermuteLossless ==
    (fpOp = "permute" /\ fpA \in Inputs) =>
        /\ \A k \in Shifts : fpOut = permute(fpA, k) => permute(fpOut, -k) = fpA
        /\ permute(fpA, 0) = fpA
        /\ PopCount(fpOut) = PopCount(fpA)

===========================================================================
